---- MODULE Spec2Model ----
(***************************************************************************)
(* Model of the incremental crawl-and-diff pipeline of superviseInfo:      *)
(*   storage.py       DataStorage (save_data, _save_history, file names)   *)
(*   base_crawler.py  BaseCrawler (fetch_page, crawl_search_url)           *)
(*   crawler_factory.py, crawler_manager.py  create_crawler, run_crawler   *)
(* The data directory is a map from file path to file content; paths are   *)
(* sequences of one-character strings, so that two names that spell the    *)
(* same path are the same file.  datetime.now() is a logical clock that    *)
(* advances once per save_data call.                                       *)
(***************************************************************************)
EXTENDS Integers, Sequences, FiniteSets, TLC

VARIABLES
    fs,         \* data directory: path -> file content
    clock,      \* value the next datetime.now() returns
    last,       \* the most recent save_data call: arguments, returns, the files
                \* before it, and a summary of the call before it
    journal,    \* per history path: every entry _save_history ever appended
    pc,         \* crawl_search_url: position in the method
    cargs,      \* crawl_search_url: arguments [url, max_pages]
    soup,       \* crawl_search_url: page returned by the latest fetch_page
    results,    \* crawl_search_url: local `results`
    page_num,   \* crawl_search_url: local `page_num`
    next_page_url, \* crawl_search_url: local `next_page_url`
    trace,      \* crawl_search_url: calls made so far (fetch, extract, next, sleep)
    ret,        \* crawl_search_url: returned list, once pc = "done"
    fetch,      \* fetch_page: one call, attempt by attempt
    run,        \* run_crawler: position, config, totals, run_results, event log
    out,        \* what the latest read-only store call returned or wrote
    race,       \* two save_data invocations running side by side
    registry    \* CrawlerFactory._crawlers: the registered extractor types

storeVars == <<fs, clock, last, journal>>
crawlVars == <<pc, cargs, soup, results, page_num, next_page_url, trace, ret>>
auxVars == <<fetch, run, out, race, registry>>
vars == <<fs, clock, last, journal, pc, cargs, soup, results, page_num,
          next_page_url, trace, ret, fetch, run, out, race, registry>>

----------------------------------------------------------------------------
(* Bounds of the model and constants of the program *)

\* longest input list handed to save_data in Spec
MaxInputLen == 2
\* number of save_data calls in one behaviour of Spec
MaxSaves == 3
\* number of save_data calls in one behaviour of SpecHist (more than HistoryCap)
MaxHistSaves == 52
\* largest max_pages handed to crawl_search_url
MaxPagesArg == 3
\* storage.py:116  "if len(history) > 50"
HistoryCap == 50
\* base_crawler.py:27  "max_retries: int = 3"
MaxRetries == 3

\* a record {title, url}; record urls are abstract identifiers of absolute URLs
Rec(t, u) == [title |-> t, url |-> u]

\* the records the inputs of Spec are made of: one url under two titles, and
\* a second url
Records == {Rec("T", 1), Rec("T2", 1), Rec("U", 2)}

SeqsUpTo(S, n) == UNION {[1..k -> S] : k \in 0..n}

Range(s) == {s[i] : i \in DOMAIN s}

Min(a, b) == IF a < b THEN a ELSE b

RECURSIVE Concat(_)
Concat(ss) == IF ss = <<>> THEN <<>> ELSE Head(ss) \o Concat(Tail(ss))

----------------------------------------------------------------------------
(* Listing URLs: sequences of tokens of the URL text *)

Url1 == <<"https://fgw.sc.gov.cn/search", "?", "q=a">>
Url2 == <<"https://fgw.sc.gov.cn/search", "?", "q=b">>
Url3 == <<"https://fgw.sc.gov.cn/search", "?", "pageNum=", "1">>

\* hashlib.md5(url.encode('utf-8')).hexdigest() of the listing URLs
Md5Hex(url) ==
    CASE url = Url1 ->
           <<"8","d","9","e","f","a","9","1","7","e","b","4","e","5","5","f",
             "1","f","9","1","d","c","3","5","7","7","a","0","e","0","3","d">>
      [] url = Url2 ->
           <<"0","0","2","9","d","b","2","4","4","3","a","c","5","2","b","5",
             "b","8","d","f","8","7","a","f","8","3","c","e","5","1","d","2">>
      [] url = Url3 ->
           <<"d","9","5","0","2","b","1","e","0","b","d","3","7","d","1","d",
             "5","1","d","2","7","0","3","e","e","d","5","6","c","0","e","7">>

----------------------------------------------------------------------------
(* storage.py: file names *)

\* the characters re [^\w\u4e00-\u9fff\-_] leaves alone, of the printable ASCII
\* characters the names of the model are written in: letters, digits, - and _
KeptChars ==
    {"A", "B", "C", "D", "E", "F", "G", "H", "I", "J", "K", "L", "M",
     "N", "O", "P", "Q", "R", "S", "T", "U", "V", "W", "X", "Y", "Z",
     "a", "b", "c", "d", "e", "f", "g", "h", "i", "j", "k", "l", "m",
     "n", "o", "p", "q", "r", "s", "t", "u", "v", "w", "x", "y", "z",
     "0", "1", "2", "3", "4", "5", "6", "7", "8", "9", "-", "_"}

CleanChar(c) == IF c \in KeptChars THEN c ELSE "_"

\* source_name is a sequence of characters; <<>> stands for None and for ""
\* mutant of _get_file_name: the display name is ignored
FileNameByUrl(url, source_name) == Md5Hex(url)

_get_file_name(url, source_name) ==
    IF source_name # <<>>
    THEN [i \in DOMAIN source_name |-> CleanChar(source_name[i])]
    ELSE Md5Hex(url)

JsonExt == <<".", "j", "s", "o", "n">>
HistorySuffix == <<"_", "h", "i", "s", "t", "o", "r", "y">> \o JsonExt

_get_data_file(url, source_name) == _get_file_name(url, source_name) \o JsonExt

_get_history_file(url, source_name) ==
    _get_file_name(url, source_name) \o HistorySuffix

----------------------------------------------------------------------------
(* Sources saved by the runs of the model *)

SrcA == [url |-> Url1, key |-> "k1", name |-> <<"A">>]
SrcH == [url |-> Url2, key |-> "k2", name |-> <<>>]

\* a second named source, a source whose display name ends in "_history", a
\* source of an unregistered site, and the listing URL of SrcA without a name
SrcB == [url |-> Url3, key |-> "k3", name |-> <<"B">>]
SrcAH == [url |-> Url2, key |-> "k4",
          name |-> <<"A", "_", "h", "i", "s", "t", "o", "r", "y">>]
SrcX == [url |-> Url2, key |-> "kx", name |-> <<"X">>]
SrcU == [url |-> Url1, key |-> "k1", name |-> <<>>]

AllSources == {SrcA, SrcH, SrcB, SrcAH, SrcX, SrcU}

Paths == UNION {{_get_data_file(s.url, s.name), _get_history_file(s.url, s.name)}
                  : s \in AllSources}

\* file contents: absent, unparsable, a JSON object, a JSON array
Absent == [kind |-> "absent", val |-> <<>>]
Corrupt == [kind |-> "corrupt", val |-> <<>>]
JsonDict(d) == [kind |-> "dict", val |-> d]
JsonList(l) == [kind |-> "list", val |-> l]

SameContent(a, b) == a.kind = b.kind /\ a.val = b.val

\* dict.get(key, default)
DictGet(d, key, default) == IF key \in DOMAIN d THEN d[key] ELSE default

----------------------------------------------------------------------------
(* storage.py: DataStorage *)

\* mutant of load_existing_data: no handler around json.load, the parse error
\* of an unparsable file leaves the function
LoadWithoutHandler(f, url, source_name) ==
    LET c == f[_get_data_file(url, source_name)]
    IN  IF c.kind = "absent" THEN JsonDict(<<>>)
        ELSE IF c.kind = "corrupt" THEN [kind |-> "raise", val |-> <<>>]
        ELSE c

\* the parsed JSON value, or {} when the file is absent or cannot be parsed
load_existing_data(f, url, source_name) ==
    LET c == f[_get_data_file(url, source_name)]
    IN  IF c.kind \in {"dict", "list"} THEN c ELSE JsonDict(<<>>)

\* mutant of CapHistory: the oldest entries are kept
CapHistoryOldest(history) ==
    IF Len(history) > HistoryCap THEN SubSeq(history, 1, HistoryCap) ELSE history

\* history[-50:] when len(history) > 50
CapHistory(history) ==
    IF Len(history) > HistoryCap
    THEN SubSeq(history, Len(history) - HistoryCap + 1, Len(history))
    ELSE history

HistoryEntry(now, source_key, source_name, new_items) ==
    [timestamp |-> now, source_key |-> source_key, source_name |-> source_name,
     new_items_count |-> Len(new_items), new_items |-> new_items]

\* what _save_history does once it has something to record (lines 96-120)
AppendHistory(f, now, url, new_items, source_key, source_name) ==
    LET history_file == _get_history_file(url, source_name)
        c == f[history_file]
        history == IF c.kind \in {"dict", "list"} THEN c ELSE JsonList(<<>>)
    IN  IF history.kind = "dict"
        THEN \* a JSON object has no append: AttributeError
             [raised |-> TRUE, fs |-> f]
        ELSE [raised |-> FALSE,
              fs |-> [f EXCEPT ![history_file] =
                        JsonList(CapHistory(Append(history.val,
                            HistoryEntry(now, source_key, source_name,
                                         new_items))))]]

\* mutant of _save_history: an entry is recorded for every save
SaveHistoryAlways(f, now, url, new_items, source_key, source_name) ==
    AppendHistory(f, now, url, new_items, source_key, source_name)

\* returns [raised, fs]
_save_history(f, now, url, new_items, source_key, source_name) ==
    IF new_items = <<>>
    THEN [raised |-> FALSE, fs |-> f]
    ELSE AppendHistory(f, now, url, new_items, source_key, source_name)

\* mutant of NewItems: nothing is filtered out
NewItemsUnfiltered(results_in, existing_items) == results_in

\* mutant of NewItems: an item is known only if stored with the same title
NewItemsByPair(results_in, existing_items) ==
    LET IsNew(item) == item \notin {existing_items[i] : i \in DOMAIN existing_items}
    IN  SelectSeq(results_in, IsNew)

\* line 63, 66: items of `results` whose url is not stored yet
NewItems(results_in, existing_items) ==
    LET existing_urls == {existing_items[i].url : i \in DOMAIN existing_items}
        IsNew(item) == item.url \notin existing_urls
    IN  SelectSeq(results_in, IsNew)

\* mutant of MergeItems: the stored items are dropped
MergeItemsNewOnly(existing_items, new_items) == new_items

\* mutant of MergeItems: the new items are put first
MergeItemsNewFirst(existing_items, new_items) == new_items \o existing_items

\* line 69: all_items = existing_items + new_items
MergeItems(existing_items, new_items) == existing_items \o new_items

\* mutant of TotalCount: the number of distinct urls
TotalCountDistinctUrls(all_items) ==
    Cardinality({all_items[i].url : i \in DOMAIN all_items})

\* line 77: 'total_count': len(all_items)
TotalCount(all_items) == Len(all_items)

\* returns [raised, fs, all, new]
save_data(f, now, url, results_in, source_key, source_name) ==
    LET existing_data == load_existing_data(f, url, source_name)
    IN  IF existing_data.kind \in {"list", "raise"}
        THEN \* a JSON array has no get: AttributeError before any write
             [raised |-> TRUE, fs |-> f, all |-> <<>>, new |-> <<>>]
        ELSE LET existing_items == DictGet(existing_data.val, "items", <<>>)
                 new_items == NewItems(results_in, existing_items)
                 all_items == MergeItems(existing_items, new_items)
                 updated_data ==
                     [url |-> url, source_key |-> source_key,
                      source_name |-> source_name, last_updated |-> now,
                      total_count |-> TotalCount(all_items), items |-> all_items]
                 f1 == [f EXCEPT ![_get_data_file(url, source_name)] =
                                     JsonDict(updated_data)]
                 h == _save_history(f1, now, url, new_items, source_key,
                                    source_name)
             IN  [raised |-> h.raised, fs |-> h.fs,
                  all |-> all_items, new |-> new_items]

\* Python None, and the 'Never' of a source never saved
None == "<None>"
Never == "Never"

\* mutant of LatestNewItems: the oldest entry is read
LatestNewItemsOldest(history) ==
    IF history # <<>> THEN history[1].new_items_count ELSE 0

\* line 142: history[-1]['new_items_count'] if history else 0
LatestNewItems(history) ==
    IF history # <<>> THEN history[Len(history)].new_items_count ELSE 0

NoSummary == [url |-> <<>>]

\* returns [raised, error, summary]
get_summary(f, url, source_name) ==
    LET data == load_existing_data(f, url, source_name)
        c == f[_get_history_file(url, source_name)]
        \* an absent or unparsable history file leaves history = []
        history == IF c.kind \in {"dict", "list"} THEN c ELSE JsonList(<<>>)
    IN  IF data.kind = "list"
        THEN \* a JSON array has no get: AttributeError
             [raised |-> TRUE, error |-> "AttributeError", summary |-> NoSummary]
        ELSE IF history.kind = "dict" /\ DOMAIN history.val # {}
        THEN \* history[-1] on a non-empty JSON object: KeyError
             [raised |-> TRUE, error |-> "KeyError", summary |-> NoSummary]
        ELSE [raised |-> FALSE, error |-> None,
              summary |->
                [url |-> url,
                 source_key |-> DictGet(data.val, "source_key", None),
                 source_name |-> DictGet(data.val, "source_name", None),
                 total_items |-> DictGet(data.val, "total_count", 0),
                 last_updated |-> DictGet(data.val, "last_updated", Never),
                 history_entries |->
                     IF history.kind = "list" THEN Len(history.val) ELSE 0,
                 latest_new_items |->
                     IF history.kind = "list"
                     THEN LatestNewItems(history.val) ELSE 0]]

CsvHeader == <<"title", "url", "discovered_at">>
CsvRow(item) == <<item.title, item.url, "">>

\* the rows export_to_csv writes to output_file; the store file is looked up
\* by url alone (line 148).  Returns [raised, rows]
export_to_csv(f, url) ==
    LET data == load_existing_data(f, url, <<>>)
    IN  IF data.kind = "list"
        THEN [raised |-> TRUE, rows |-> <<>>]
        ELSE LET items == DictGet(data.val, "items", <<>>)
             IN  [raised |-> FALSE,
                  rows |-> <<CsvHeader>> \o [i \in DOMAIN items |-> CsvRow(items[i])]]

----------------------------------------------------------------------------
(* Reading the store *)

DataOf(f, s) == f[_get_data_file(s.url, s.name)]
HistOf(f, s) == f[_get_history_file(s.url, s.name)]

\* the record sequence stored in a data file content ( <<>> when there is none)
ItemsOf(c) == IF c.kind = "dict" THEN DictGet(c.val, "items", <<>>) ELSE <<>>

\* the entries of a history file content ( <<>> when there is none)
EntriesOf(c) == IF c.kind = "list" THEN c.val ELSE <<>>

UrlsOf(s) == {s[i].url : i \in DOMAIN s}

IsPrefix(s, t) == Len(s) <= Len(t) /\ SubSeq(t, 1, Len(s)) = s

----------------------------------------------------------------------------
(* One save_data call on source s with input L *)

NoCall == [op |-> "none"]

SaveCall(s, L) ==
    LET r == save_data(fs, clock, s.url, L, s.key, s.name)
        hf == _get_history_file(s.url, s.name)
    IN  /\ fs' = r.fs
        /\ clock' = clock + 1
        /\ last' = [op |-> "save", src |-> s, input |-> L,
                    raised |-> r.raised, all |-> r.all, new |-> r.new,
                    before_data |-> DataOf(fs, s),
                    before_hist |-> HistOf(fs, s),
                    before_fs |-> fs,
                    prev |-> IF last.op = "save"
                             THEN [op |-> "save", src |-> last.src,
                                   all |-> last.all,
                                   input_urls |-> UrlsOf(last.input),
                                   existing_urls |->
                                       UrlsOf(ItemsOf(last.before_data)),
                                   same_input |-> last.input = L]
                             ELSE NoCall]
        /\ journal' = IF ~r.raised /\ r.new # <<>>
                      THEN [journal EXCEPT ![hf] =
                              Append(@, HistoryEntry(clock, s.key, s.name, r.new))]
                      ELSE journal

StoreInit ==
    /\ fs = [p \in Paths |-> Absent]
    /\ clock = 0
    /\ last = NoCall
    /\ journal = [p \in Paths |-> <<>>]

CrawlIdle ==
    /\ pc = "idle"
    /\ cargs = [url |-> Url1, max_pages |-> 0]
    /\ soup = [ok |-> FALSE, links |-> <<>>]
    /\ results = <<>>
    /\ page_num = 0
    /\ next_page_url = <<>>
    /\ trace = <<>>
    /\ ret = <<>>

----------------------------------------------------------------------------
(* Spec: saves of arbitrary input lists on the sources of the store *)

StoreSources == {SrcA}
Inputs == SeqsUpTo(Records, MaxInputLen)

Save ==
    /\ clock < MaxSaves
    /\ \E s \in StoreSources, L \in Inputs : SaveCall(s, L)
    /\ UNCHANGED <<crawlVars, auxVars>>

\* crawler_factory.py:11-15  the extractor types registered at import
Registered == {"sichuan_fgw"}

AuxIdle ==
    /\ registry = Registered
    /\ fetch = [pc |-> "idle"]
    /\ run = [pc |-> "idle"]
    /\ out = NoCall
    /\ race = [pc |-> "idle"]

Init == StoreInit /\ CrawlIdle /\ AuxIdle

Next == Save

Spec == Init /\ [][Next]_vars

----------------------------------------------------------------------------
(* SpecHist: more than HistoryCap saves on one source.  Every productive save
   brings one url never seen before (url = clock + 1), alone or beside a url
   stored by the first save; at most MaxIdleSaves saves bring nothing new. *)

\* number of saves of SpecHist that bring no new record
MaxIdleSaves == 1

FreshInputs(c) ==
    IF c = 0
    THEN {<<Rec("T", 1)>>}
    ELSE {<<Rec("T", c + 1)>>,
          <<Rec("T2", 1), Rec("T", c + 1)>>}

IdleInputs == {<<>>, <<Rec("T2", 1)>>}

SaveFresh ==
    /\ clock < MaxHistSaves
    /\ \E L \in FreshInputs(clock) : SaveCall(SrcA, L)
    /\ UNCHANGED <<crawlVars, auxVars>>

SaveIdle ==
    /\ clock < MaxHistSaves
    /\ clock > 0
    /\ clock - Len(journal[_get_history_file(SrcA.url, SrcA.name)]) < MaxIdleSaves
    /\ \E L \in IdleInputs : SaveCall(SrcA, L)
    /\ UNCHANGED <<crawlVars, auxVars>>

NextHist == SaveFresh \/ SaveIdle

SpecHist == Init /\ [][NextHist]_vars

----------------------------------------------------------------------------
(* base_crawler.py: fetch_page *)

\* One fetch_page call.  outcomes[k+1] tells whether attempt k (the GET,
\* raise_for_status and the parse) succeeds.  Returns [ok, attempts, sleeps].
RECURSIVE FetchAttempt(_, _, _, _)
FetchAttempt(outcomes, attempt, max_retries, sleeps) ==
    IF attempt >= max_retries
    THEN [ok |-> FALSE, attempts |-> attempt, sleeps |-> sleeps]
    ELSE IF outcomes[attempt + 1]
         THEN [ok |-> TRUE, attempts |-> attempt + 1, sleeps |-> sleeps]
         ELSE IF attempt < max_retries - 1
              THEN FetchAttempt(outcomes, attempt + 1, max_retries,
                                Append(sleeps, 2 ^ attempt))
              ELSE [ok |-> FALSE, attempts |-> attempt + 1, sleeps |-> sleeps]

fetch_page(outcomes, max_retries) == FetchAttempt(outcomes, 0, max_retries, <<>>)

FetchOutcomes == [1..MaxRetries -> BOOLEAN]

----------------------------------------------------------------------------
(* sichuan_fgw_crawler.py: the extractor *)

\* keeps the first occurrence of every (title, url) pair
RECURSIVE DedupFrom(_, _, _)
DedupFrom(rs, seen, unique_results) ==
    IF rs = <<>>
    THEN unique_results
    ELSE LET identifier == <<Head(rs).title, Head(rs).url>>
         IN  IF identifier \notin seen
             THEN DedupFrom(Tail(rs), seen \cup {identifier},
                            Append(unique_results, Head(rs)))
             ELSE DedupFrom(Tail(rs), seen, unique_results)

\* the identifier narrowed to the url alone
RECURSIVE DedupByUrlFrom(_, _, _)
DedupByUrlFrom(rs, seen, unique_results) ==
    IF rs = <<>>
    THEN unique_results
    ELSE IF Head(rs).url \notin seen
         THEN DedupByUrlFrom(Tail(rs), seen \cup {Head(rs).url},
                             Append(unique_results, Head(rs)))
         ELSE DedupByUrlFrom(Tail(rs), seen, unique_results)

DedupByUrl(rs) == DedupByUrlFrom(rs, {}, <<>>)

_deduplicate_results(rs) == DedupFrom(rs, {}, <<>>)

\* a fetched page is the list of (title, url) links its markup yields
extract_search_results(page) == _deduplicate_results(page.links)

Digits == <<"0", "1", "2", "3", "4", "5", "6", "7", "8", "9">>
DigitTokens == Range(Digits)

\* f"{page_num}"
ToStr(n) ==
    IF n < 10 THEN Digits[n + 1]
    ELSE Digits[(n \div 10) + 1] \o Digits[(n % 10) + 1]

\* the tokens that are numbers: \d+ of one or two digits in one token
NumberTokens == DigitTokens \cup {a \o b : a, b \in DigitTokens}

\* what is left of a token sequence after its leading number tokens
RECURSIVE DropNumber(_)
DropNumber(u) ==
    IF u # <<>> /\ Head(u) \in NumberTokens THEN DropNumber(Tail(u)) ELSE u

\* re.sub(r'pageNum=\d+', f'pageNum={page_num}', base_url): every pageNum=
\* that a number follows gets the whole number replaced
RECURSIVE SubPageNum(_, _)
SubPageNum(u, n) ==
    IF u = <<>> THEN <<>>
    ELSE IF Head(u) = "pageNum=" /\ Len(u) >= 2 /\ u[2] \in NumberTokens
    THEN <<"pageNum=", ToStr(n)>> \o SubPageNum(DropNumber(Tail(u)), n)
    ELSE <<Head(u)>> \o SubPageNum(Tail(u), n)

\* lines 100-107: the number replaced, or the parameter appended after '?'
\* or '&'
build_next_page_url(base_url, n) ==
    IF "pageNum=" \in Range(base_url)
    THEN SubPageNum(base_url, n)
    ELSE base_url \o <<IF "?" \in Range(base_url) THEN "&" ELSE "?",
                       "pageNum=", ToStr(n)>>

----------------------------------------------------------------------------
(* base_crawler.py: crawl_search_url, one action per call it makes *)

CrawlUrls == {Url1, Url3}

\* the link lists a fetched page may hold
PageLinks == {<<>>,
              <<Rec("T", 1)>>,
              <<Rec("T", 1), Rec("U", 2), Rec("T", 1)>>}

NoPage == [ok |-> FALSE, links |-> <<>>]
NoneUrl == <<>>

\* what build_next_page_url of some extractor may return: no address, or the
\* address SichuanFGWCrawler builds
NextPageChoices(base_url, n) == {NoneUrl, build_next_page_url(base_url, n)}

FetchEvent(url, ok) == [e |-> "fetch", url |-> url, ok |-> ok]
ExtractEvent(rs) == [e |-> "extract", records |-> rs]
NextEvent(base_url, n, res) ==
    [e |-> "next", base |-> base_url, page |-> n, result |-> res]
SleepEvent(secs) == [e |-> "sleep", secs |-> secs]

\* mutant of NextPageIndex: page 1 is asked for again and again
NextPageIndexFirst(n) == 1

\* line 86: build_next_page_url(url, page_num + 1)
NextPageIndex(n) == n + 1

\* mutant of LoopGuard: one page too many
LoopGuardOffByOne(n, max_pages) == n < max_pages

\* line 85: while page_num < max_pages - 1
LoopGuard(n, max_pages) == n < max_pages - 1

\* mutant of StopOnEmpty: an empty page does not end the crawl
StopOnEmptyNever(next_results) == FALSE

\* line 96: if not next_results: break
StopOnEmpty(next_results) == next_results = <<>>

\* mutant of PageMissing: a failed fetch is not noticed
PageMissingNever(page) == FALSE

\* lines 78, 92: if not soup / if not next_soup
PageMissing(page) == ~page.ok

\* the page a fetch_page call returns: None, or the parsed page
FetchedPage(r, links) == IF r.ok THEN [ok |-> TRUE, links |-> links] ELSE NoPage

\* the max_pages values of the model: none, a negative one, and 1..MaxPagesArg
MaxPagesValues == {-1} \cup (0..MaxPagesArg)

Return(rs) == ret' = rs /\ pc' = "done"

CrawlStart ==
    /\ pc = "idle"
    /\ run.pc = "idle"
    /\ \E url \in CrawlUrls, max_pages \in MaxPagesValues :
         cargs' = [url |-> url, max_pages |-> max_pages]
    /\ pc' = "fetch_start"
    /\ UNCHANGED <<soup, results, page_num, next_page_url, trace, ret>>
    /\ UNCHANGED <<storeVars, auxVars>>

\* lines 77-79
FetchStart ==
    /\ pc = "fetch_start"
    /\ \E outcomes \in FetchOutcomes, links \in PageLinks :
         LET r == fetch_page(outcomes, MaxRetries)
         IN  /\ trace' = Append(trace, FetchEvent(cargs.url, r.ok))
             /\ soup' = FetchedPage(r, links)
             /\ IF PageMissing(FetchedPage(r, links))
                THEN Return(<<>>)
                ELSE pc' = "extract_start" /\ ret' = ret
    /\ UNCHANGED <<cargs, results, page_num, next_page_url>>
    /\ UNCHANGED <<storeVars, auxVars>>

\* lines 81-84
ExtractStart ==
    /\ pc = "extract_start"
    /\ results' = extract_search_results(soup)
    /\ trace' = Append(trace, ExtractEvent(extract_search_results(soup)))
    /\ page_num' = 0
    /\ pc' = "loop"
    /\ UNCHANGED <<cargs, soup, next_page_url, ret>>
    /\ UNCHANGED <<storeVars, auxVars>>

\* lines 85-88 and 104: the loop test and the next-page request
BuildNext ==
    /\ pc = "loop"
    /\ IF LoopGuard(page_num, cargs.max_pages)
       THEN \E nxt \in NextPageChoices(cargs.url, NextPageIndex(page_num)) :
              /\ trace' = Append(trace, NextEvent(cargs.url,
                                                  NextPageIndex(page_num), nxt))
              /\ next_page_url' = nxt
              /\ IF nxt = NoneUrl
                 THEN Return(results)
                 ELSE pc' = "fetch_next" /\ ret' = ret
       ELSE /\ Return(results)
            /\ UNCHANGED <<trace, next_page_url>>
    /\ UNCHANGED <<cargs, soup, results, page_num>>
    /\ UNCHANGED <<storeVars, auxVars>>

\* lines 91-93
FetchNext ==
    /\ pc = "fetch_next"
    /\ \E outcomes \in FetchOutcomes, links \in PageLinks :
         LET r == fetch_page(outcomes, MaxRetries)
         IN  /\ trace' = Append(trace, FetchEvent(next_page_url, r.ok))
             /\ soup' = FetchedPage(r, links)
             /\ IF PageMissing(FetchedPage(r, links))
                THEN Return(results)
                ELSE pc' = "extract_next" /\ ret' = ret
    /\ UNCHANGED <<cargs, results, page_num, next_page_url>>
    /\ UNCHANGED <<storeVars, auxVars>>

\* lines 95-102
ExtractNext ==
    /\ pc = "extract_next"
    /\ LET next_results == extract_search_results(soup)
       IN  IF StopOnEmpty(next_results)
           THEN /\ trace' = Append(trace, ExtractEvent(next_results))
                /\ Return(results)
                /\ UNCHANGED <<results, page_num>>
           ELSE /\ results' = results \o next_results
                /\ page_num' = page_num + 1
                /\ trace' = trace \o <<ExtractEvent(next_results), SleepEvent(1)>>
                /\ pc' = "loop"
                /\ ret' = ret
    /\ UNCHANGED <<cargs, soup, next_page_url>>
    /\ UNCHANGED <<storeVars, auxVars>>

NextCrawl ==
    \/ CrawlStart
    \/ FetchStart
    \/ ExtractStart
    \/ BuildNext
    \/ FetchNext
    \/ ExtractNext

SpecCrawl == Init /\ [][NextCrawl]_vars

----------------------------------------------------------------------------
(* SpecPipeline: direct save_data calls of a client of the store, one crawl,
   and the save run_crawler makes of what the crawl returned. *)

\* a client of the store calls save_data while no crawl is under way
SaveDirect ==
    /\ pc \in {"idle", "done", "saved"}
    /\ clock < MaxSaves
    /\ \E L \in {<<>>, <<Rec("T", 1)>>} : SaveCall(SrcA, L)
    /\ UNCHANGED <<crawlVars, auxVars>>

\* crawler_manager.py:113-115 (main.py:102-103): if results: save_data(...),
\* with the address that was crawled and the key and display name of SrcA
SavePipeline ==
    /\ pc = "done"
    /\ ret # <<>>
    /\ clock < MaxSaves
    /\ SaveCall([SrcA EXCEPT !.url = cargs.url], ret)
    /\ pc' = "saved"
    /\ UNCHANGED <<cargs, soup, results, page_num, next_page_url, trace, ret>>
    /\ UNCHANGED auxVars

NextPipeline == SaveDirect \/ SavePipeline \/ NextCrawl

SpecPipeline == Init /\ [][NextPipeline]_vars

----------------------------------------------------------------------------
(* Properties of save_data, read off the latest call *)

Saved == last.op = "save" /\ ~last.raised

\* the record sequence stored for the saved source before and after the call
BeforeItems == ItemsOf(last.before_data)
AfterItems == ItemsOf(DataOf(fs, last.src))

\* the call before the latest one was a save on the same source
SecondOfTwo ==
    /\ Saved
    /\ last.prev.op = "save"
    /\ last.prev.src = last.src

\* the items of s whose url is not in U, in the order of s
WithoutUrls(s, U) ==
    LET Keep(item) == item.url \notin U
    IN  SelectSeq(s, Keep)

\* C1: a save that repeats the previous save (same source, same input list)
\* returns no new record, and the same all_records as the previous save.
C1_SaveIdempotent ==
    (SecondOfTwo /\ last.prev.same_input)
        => /\ last.new = <<>>
           /\ last.all = last.prev.all

C1_Witness ==
    /\ SecondOfTwo
    /\ last.prev.same_input
    /\ Len(last.input) = 2
    /\ last.all # <<>>

\* C2 as stated: of two consecutive saves on one source, the second bringing
\* a strict superset of the urls of the first, the second returns as new
\* exactly its records whose url was not in the first input, in input order.
C2_Original ==
    (SecondOfTwo /\ last.prev.input_urls \subseteq UrlsOf(last.input)
                 /\ last.prev.input_urls # UrlsOf(last.input))
        => last.new = WithoutUrls(last.input, last.prev.input_urls)

\* C2 amended: ... exactly its records whose url was neither in the first
\* input nor stored before the first save, in input order.
C2_DedupAgainstStore ==
    (SecondOfTwo /\ last.prev.input_urls \subseteq UrlsOf(last.input)
                 /\ last.prev.input_urls # UrlsOf(last.input))
        => last.new = WithoutUrls(last.input,
                                  last.prev.input_urls \cup last.prev.existing_urls)

C2_Witness ==
    /\ SecondOfTwo
    /\ last.prev.input_urls \subseteq UrlsOf(last.input)
    /\ last.prev.input_urls # UrlsOf(last.input)
    /\ last.prev.input_urls # {}
    /\ last.new # <<>>

\* C3 as stated: no url occurs twice in the new_records a save returns.
C3_NewRecordsDistinctUrls ==
    Saved => \A i, j \in DOMAIN last.new :
                 i # j => last.new[i].url # last.new[j].url

\* C4: on a readable store, the sequence stored before a save is a prefix of
\* the sequence stored after it, and the returned all_records is the stored
\* sequence: existing records followed by the new ones.
C4_AppendOnly ==
    (Saved /\ last.before_data.kind \in {"absent", "dict"})
        => /\ IsPrefix(BeforeItems, AfterItems)
           /\ last.all = BeforeItems \o last.new
           /\ AfterItems = last.all

C4_Witness ==
    /\ Saved
    /\ BeforeItems # <<>>
    /\ last.new # <<>>

\* C5: when a save brings a record whose url is stored under another title,
\* that record is not returned as new, and the records stored for that url
\* are the ones stored before, titles unchanged.
C5_FirstTitleWins ==
    Saved =>
        \A i \in DOMAIN BeforeItems, k \in DOMAIN last.input :
            (/\ last.input[k].url = BeforeItems[i].url
             /\ last.input[k].title # BeforeItems[i].title)
            => /\ last.input[k] \notin Range(last.new)
               /\ i \in DOMAIN AfterItems
               /\ AfterItems[i] = BeforeItems[i]
               /\ LET SameUrl(item) == item.url = BeforeItems[i].url
                  IN  SelectSeq(AfterItems, SameUrl) = SelectSeq(BeforeItems, SameUrl)

C5_Witness ==
    /\ Saved
    /\ last.new # <<>>
    /\ \E i \in DOMAIN BeforeItems, k \in DOMAIN last.input :
          /\ last.input[k].url = BeforeItems[i].url
          /\ last.input[k].title # BeforeItems[i].title

\* the history log of source SrcA, and every entry ever recorded for it
HistoryA == EntriesOf(HistOf(fs, SrcA))
JournalA == journal[_get_history_file(SrcA.url, SrcA.name)]

\* C6: after N saves that produced new records, the history log holds
\* min(N, 50) entries: those of the most recent such saves, oldest first.
C6_HistoryBound ==
    LET N == Len(JournalA)
    IN  /\ Len(HistoryA) = Min(N, HistoryCap)
        /\ HistoryA = SubSeq(JournalA, N - Min(N, HistoryCap) + 1, N)
        /\ \A i \in 1..(Len(HistoryA) - 1) :
               HistoryA[i].timestamp < HistoryA[i + 1].timestamp

C6_Witness == Len(JournalA) >= HistoryCap + 2

\* C7: a save that returns no new record leaves the history file as it was
\* (absent if it was absent); a save that returns new records appends one
\* entry, holding those records and their count.
C7_HistoryFrame ==
    Saved =>
        LET before == last.before_hist
            after == HistOf(fs, last.src)
        IN  IF last.new = <<>>
            THEN SameContent(after, before)
            ELSE /\ after.kind = "list"
                 /\ Len(after.val) >= 1
                 /\ after.val[Len(after.val)].new_items_count = Len(last.new)
                 /\ after.val[Len(after.val)].new_items = last.new
                 /\ SubSeq(after.val, 1, Len(after.val) - 1) =
                        IF Len(EntriesOf(before)) < HistoryCap
                        THEN EntriesOf(before)
                        ELSE Tail(EntriesOf(before))

C7_Witness ==
    /\ Saved
    /\ last.input # <<>>
    /\ last.new = <<>>
    /\ last.before_hist.kind = "list"

----------------------------------------------------------------------------
(* Properties of crawl_search_url, read off the calls it made *)

IsFetch(ev) == ev.e = "fetch"
IsExtract(ev) == ev.e = "extract"
IsNextRequest(ev) == ev.e = "next"

NumFetches == Len(SelectSeq(trace, IsFetch))
NumNextRequests == Len(SelectSeq(trace, IsNextRequest))

\* the records extracted by the calls before position i, in page order
ExtractedBefore(i) ==
    LET ex == SelectSeq(SubSeq(trace, 1, i - 1), IsExtract)
    IN  Concat([k \in DOMAIN ex |-> ex[k].records])

\* position i of the trace is an event that ends the crawl: no next address,
\* a failed fetch, or a follow-up page without records
IsStop(i) ==
    \/ IsNextRequest(trace[i]) /\ trace[i].result = NoneUrl
    \/ IsFetch(trace[i]) /\ ~trace[i].ok
    \/ /\ IsExtract(trace[i])
       /\ trace[i].records = <<>>
       /\ \E j \in 1..(i - 1) : IsExtract(trace[j])

\* C8: the first stop event is the last call of the crawl, and the crawl has
\* returned the records extracted before it.
C8_StopConditions ==
    \A i \in DOMAIN trace :
        IsStop(i) => /\ i = Len(trace)
                     /\ pc = "done"
                     /\ ret = ExtractedBefore(i)

C8_Witness ==
    /\ pc = "done"
    /\ IsExtract(trace[Len(trace)])
    /\ IsStop(Len(trace))
    /\ ret # <<>>
    /\ NumFetches < cargs.max_pages

\* C9 as stated: with max_pages = 1 no next-page address is requested, and
\* whatever max_pages is, a crawl fetches at most max_pages pages and makes
\* at most max_pages - 1 next-page requests.
C9_Original ==
    pc = "done" =>
        /\ cargs.max_pages = 1 => NumNextRequests = 0
        /\ NumFetches <= cargs.max_pages
        /\ NumNextRequests <= cargs.max_pages - 1

\* C9 amended: ... for max_pages >= 1; with max_pages <= 0 the crawl still
\* fetches the start page, once, and requests no next-page address.
C9_PageBound ==
    pc # "idle" =>
        /\ cargs.max_pages = 1 => NumNextRequests = 0
        /\ cargs.max_pages >= 1 =>
              /\ NumFetches <= cargs.max_pages
              /\ NumNextRequests <= cargs.max_pages - 1
        /\ cargs.max_pages <= 0 =>
              /\ NumFetches = IF pc = "fetch_start" THEN 0 ELSE 1
              /\ NumNextRequests = 0

C9_Witness ==
    /\ pc = "done"
    /\ cargs.max_pages = MaxPagesArg
    /\ NumFetches = cargs.max_pages
    /\ NumNextRequests = cargs.max_pages - 1

\* C10: a crawl whose first fetch fails has made no other call and returns
\* the empty list; a save of the empty list returns the stored records and
\* no new record, and leaves the stored records as they were.
C10_EmptyCrawlEmptySave ==
    /\ (trace # <<>> /\ ~trace[1].ok)
          => /\ Len(trace) = 1
             /\ pc = "done"
             /\ ret = <<>>
    /\ (Saved /\ last.input = <<>>)
          => /\ last.new = <<>>
             /\ last.all = BeforeItems
             /\ AfterItems = BeforeItems

C10_Witness ==
    /\ pc = "done"
    /\ trace # <<>>
    /\ ~trace[1].ok
    /\ Saved
    /\ last.input = <<>>
    /\ BeforeItems # <<>>

----------------------------------------------------------------------------
(* SpecFetch: one fetch_page call, one attempt of the for loop per step.
   An attempt is the GET, raise_for_status, get_page_encoding and the parse,
   all inside the try; it either returns the page or raises. *)

\* largest max_retries handed to fetch_page in SpecFetch
MaxRetriesArg == 4

\* what an attempt raises: requests.exceptions.Timeout, HTTPError (from
\* raise_for_status) and ConnectionError, all subclasses of Exception
AttemptErrors == {"Timeout", "HTTPError", "ConnectionError"}
AttemptOutcomes == {"ok"} \cup AttemptErrors

\* a mistaken handler: "except (Timeout, ConnectionError)"
CatchesConnectionOnly(err) == err \in {"Timeout", "ConnectionError"}
\* base_crawler.py:35  "except Exception as e"
Catches(err) == err \in AttemptErrors

\* mutant of BackoffDelay: the same delay after every failed attempt
BackoffFixed(attempt) == 1

\* base_crawler.py:38  time.sleep(2 ** attempt)
BackoffDelay(attempt) == 2 ^ attempt

NonePage == [kind |-> "None", attempt |-> 0]
SoupOf(k) == [kind |-> "soup", attempt |-> k]

FetchCall ==
    /\ fetch.pc = "idle"
    /\ \E m \in 0..MaxRetriesArg :
          fetch' = [pc |-> "loop", max_retries |-> m, attempt |-> 0,
                    gets |-> <<>>, sleeps |-> <<>>, result |-> NonePage]
    /\ UNCHANGED <<storeVars, crawlVars, run, out, race, registry>>

\* range(max_retries) is exhausted before any attempt: the function falls off
\* its end and returns None
FetchExhausted ==
    /\ fetch.pc = "loop"
    /\ fetch.attempt >= fetch.max_retries
    /\ fetch' = [fetch EXCEPT !.pc = "returned", !.result = NonePage]
    /\ UNCHANGED <<storeVars, crawlVars, run, out, race, registry>>

\* one iteration of the loop: the try block and, when it raises, the handler
FetchTry ==
    /\ fetch.pc = "loop"
    /\ fetch.attempt < fetch.max_retries
    /\ \E o \in AttemptOutcomes :
          LET g == Append(fetch.gets, o)
          IN  fetch' =
                IF o = "ok"
                THEN [fetch EXCEPT !.pc = "returned", !.gets = g,
                                   !.result = SoupOf(fetch.attempt + 1)]
                ELSE IF ~Catches(o)
                THEN [fetch EXCEPT !.pc = "raised", !.gets = g]
                ELSE IF fetch.attempt < fetch.max_retries - 1
                THEN [fetch EXCEPT !.gets = g,
                                   !.sleeps = Append(@, BackoffDelay(fetch.attempt)),
                                   !.attempt = @ + 1]
                ELSE [fetch EXCEPT !.pc = "returned", !.gets = g,
                                   !.result = NonePage]
    /\ UNCHANGED <<storeVars, crawlVars, run, out, race, registry>>

NextFetch == FetchCall \/ FetchExhausted \/ FetchTry

SpecFetch == Init /\ [][NextFetch]_vars

FetchActive == fetch.pc # "idle"

\* C11: a fetch makes at most max_retries GET attempts, every attempt before
\* the last one made has failed, a successful attempt ends the call with that
\* attempt's page, None is returned only when all max_retries attempts have
\* failed, and no exception leaves fetch_page.
C11_RetryContract ==
    FetchActive =>
        /\ fetch.pc # "raised"
        /\ Len(fetch.gets) <= fetch.max_retries
        /\ \A i \in 1..(Len(fetch.gets) - 1) : fetch.gets[i] # "ok"
        /\ fetch.pc = "loop" => \A i \in DOMAIN fetch.gets : fetch.gets[i] # "ok"
        /\ fetch.pc = "returned" =>
              IF fetch.gets # <<>> /\ fetch.gets[Len(fetch.gets)] = "ok"
              THEN fetch.result = SoupOf(Len(fetch.gets))
              ELSE /\ fetch.result = NonePage
                   /\ Len(fetch.gets) = fetch.max_retries
        /\ fetch.pc = "returned" =>
              (fetch.result.kind = "soup") <=>
                  fetch_page([k \in 1..fetch.max_retries |->
                                 k <= Len(fetch.gets) /\ fetch.gets[k] = "ok"],
                             fetch.max_retries).ok

\* two failed attempts of different kinds, then the third of three succeeds
C11_Witness ==
    /\ fetch.pc = "returned"
    /\ fetch.max_retries = MaxRetries
    /\ fetch.gets = <<"HTTPError", "Timeout", "ok">>
    /\ fetch.result = SoupOf(3)

\* all three attempts fail and the call returns None
C11_WitnessFailure ==
    /\ fetch.pc = "returned"
    /\ fetch.max_retries = MaxRetries
    /\ fetch.gets = <<"HTTPError", "HTTPError", "HTTPError">>
    /\ fetch.result = NonePage

----------------------------------------------------------------------------
(* crawler_factory.py and crawler_manager.py: run_crawler *)

\* mutant of create_crawler: an unknown type gets the default extractor
create_crawler_default(reg, crawler_type) == [raised |-> FALSE, error |-> None]

\* crawler_factory.py:18-26; the error is the ValueError message
create_crawler(reg, crawler_type) ==
    IF crawler_type \notin reg
    THEN [raised |-> TRUE, error |-> "unsupported crawler type"]
    ELSE [raised |-> FALSE, error |-> None]

\* entries of config['search_urls'], without their 'enabled' flag
CfgOf(s, crawler_type) ==
    [key |-> s.key, name |-> s.name, url |-> s.url, crawler_type |-> crawler_type]

CfgA == CfgOf(SrcA, "sichuan_fgw")
CfgX == CfgOf(SrcX, "other_site")
CfgB == CfgOf(SrcB, "sichuan_fgw")
CfgAH == CfgOf(SrcAH, "sichuan_fgw")
\* a second entry with the display name and listing URL of CfgA
CfgA2 == CfgOf([SrcA EXCEPT !.key = "k5"], "sichuan_fgw")

\* the entry lists of the configurations: a list with an unregistered type,
\* and a list whose display names share store files
BaseLists == {<<CfgA, CfgX, CfgB>>, <<CfgAH, CfgA, CfgA2>>}

\* an entry with 'enabled': b, and an entry without the flag
Flagged(c, b) ==
    [key |-> c.key, name |-> c.name, url |-> c.url,
     crawler_type |-> c.crawler_type, enabled |-> b]

\* the first two entries carry an explicit flag; the third carries none or
\* 'enabled': false
FlagLists(L) ==
    {<<Flagged(L[1], b1), Flagged(L[2], b2),
       IF b3 THEN L[3] ELSE Flagged(L[3], FALSE)>> : b1, b2, b3 \in BOOLEAN}

\* crawler_settings.max_pages of the configurations
RunMaxPagesValues == {1, 2}

NoConfig == [search_urls |-> <<>>, max_pages |-> 0, loaded |-> FALSE]

RunConfigs ==
    {[search_urls |-> fl, max_pages |-> m, loaded |-> TRUE] :
        fl \in UNION {FlagLists(L) : L \in BaseLists}, m \in RunMaxPagesValues}

\* mutant of IsEnabled: the flag is ignored
IsEnabledAlways(url_config) == TRUE

\* line 51: url_config.get('enabled', True)
IsEnabled(url_config) == DictGet(url_config, "enabled", TRUE)

\* lines 52-58: the entry appended to search_urls
SearchEntry(c) ==
    [key |-> c.key, name |-> c.name, url |-> c.url, crawler_type |-> c.crawler_type]

\* lines 48-58
RECURSIVE EnabledEntries(_)
EnabledEntries(url_configs) ==
    IF url_configs = <<>>
    THEN <<>>
    ELSE (IF IsEnabled(Head(url_configs))
          THEN <<SearchEntry(Head(url_configs))>> ELSE <<>>)
         \o EnabledEntries(Tail(url_configs))

\* lines 87-97
ConfigResult(c) ==
    [key |-> c.key, name |-> c.name, url |-> c.url, crawler_type |-> c.crawler_type,
     crawled_count |-> 0, new_count |-> 0, total_count |-> 0,
     new_items |-> <<>>, error |-> None]

\* mutant of Caught: the error is logged and not recorded
CaughtNotRecorded(config_result, e) == config_result

\* lines 141-143: except Exception as e: config_result['error'] = str(e)
Caught(config_result, e) == [config_result EXCEPT !.error = e]

\* events of a run: a source being taken up, a GET sequence of fetch_page, a
\* write to the store, an exception reaching the handler of the loop
RunEvent(key, e) == [key |-> key, e |-> e]

\* the fetch_page calls of a crawl trace, as events of the source
FetchLog(key, tr) ==
    LET IsFetchEvent(ev) == ev.e = "fetch"
        fs_ == SelectSeq(tr, IsFetchEvent)
    IN  [i \in DOMAIN fs_ |-> RunEvent(key, "fetch")]

\* the store write of a save fails (OSError at open, line 82) or goes through
SaveFaults == {"ok", "OSError"}

\* the crawler object and its locals are dropped
ResetCrawl ==
    /\ pc' = "idle"
    /\ cargs' = [url |-> Url1, max_pages |-> 0]
    /\ soup' = [ok |-> FALSE, links |-> <<>>]
    /\ results' = <<>>
    /\ page_num' = 0
    /\ next_page_url' = <<>>
    /\ trace' = <<>>
    /\ ret' = <<>>

\* mutant of Exhausted: the loop never sees the end of the list
ExhaustedNever(i, n) == FALSE

\* line 78: the for loop leaves after the last of the n entries
Exhausted(i, n) == i > n

\* line 146 and the step of the for loop
Advance(config_result, log, total_new, total_all) ==
    run' = [run EXCEPT !.run_results = Append(@, config_result),
                       !.log = log,
                       !.total_new_items = total_new,
                       !.total_all_items = total_all,
                       !.i = @ + 1,
                       !.pc = IF Exhausted(run.i + 1, Len(run.search_urls))
                              THEN "end" ELSE "loop"]

\* the types a client registers: that of CfgX, and the one
\* register_example_crawler registers (example_other_site_crawler.py:142)
RegisterTypes == {"other_site", "example_other_site"}

\* number of types a client adds to the registry
MaxRegistrations == 1

\* crawler_factory.py:28-32, called before a run is started
RegisterCrawler ==
    /\ run.pc = "idle"
    /\ pc = "idle"
    /\ race.pc = "idle"
    /\ Cardinality(registry) < Cardinality(Registered) + MaxRegistrations
    /\ \E crawler_type \in RegisterTypes :
          /\ crawler_type \notin registry
          /\ registry' = registry \cup {crawler_type}
    /\ UNCHANGED <<storeVars, crawlVars, fetch, run, out, race>>

\* a record set left in the store by an earlier run
PriorSave ==
    /\ run.pc = "idle"
    /\ race.pc = "idle"
    /\ clock = 0
    /\ SaveCall(SrcA, <<Rec("T", 1)>>)
    /\ UNCHANGED <<crawlVars, auxVars>>

\* lines 42-75: load the configuration, keep the enabled entries; return when
\* there is no configuration or no enabled entry
RunStartWith(configs) ==
    /\ run.pc = "idle"
    /\ pc = "idle"
    /\ \E config \in configs :
          LET search_urls == IF config.loaded
                             THEN EnabledEntries(config.search_urls) ELSE <<>>
          \* fs0 remembers the store the run found
          IN  run' = [pc |-> IF search_urls = <<>> THEN "end" ELSE "loop",
                      config |-> config, search_urls |-> search_urls, i |-> 1,
                      total_new_items |-> 0, total_all_items |-> 0,
                      run_results |-> <<>>, log |-> <<>>, fs0 |-> fs]
    /\ UNCHANGED <<storeVars, crawlVars, fetch, out, race, registry>>

\* a configuration file of the model, or none that loads
StartConfigs == RunConfigs \cup {NoConfig}

RunStart == RunStartWith(StartConfigs)

\* lines 78-109: take up the next entry, construct its extractor and call
\* crawl_search_url, or record the construction error
RunnerCreate ==
    /\ run.pc = "loop"
    /\ run.i <= Len(run.search_urls)
    /\ LET c == run.search_urls[run.i]
           log == Append(run.log, RunEvent(c.key, "begin"))
           made == create_crawler(registry, c.crawler_type)
       IN  IF made.raised
           THEN /\ Advance(Caught(ConfigResult(c), made.error),
                           Append(log, RunEvent(c.key, "raise")),
                           run.total_new_items, run.total_all_items)
                /\ UNCHANGED crawlVars
           ELSE /\ run' = [run EXCEPT !.pc = "crawl", !.log = log]
                /\ pc' = "fetch_start"
                /\ cargs' = [url |-> c.url, max_pages |-> run.config.max_pages]
                /\ UNCHANGED <<soup, results, page_num, next_page_url, trace, ret>>
    /\ UNCHANGED <<storeVars, fetch, out, race, registry>>

\* an extract_search_results call of the crawl raises: lines 141-146
RunnerCrawlRaise ==
    /\ run.pc = "crawl"
    /\ pc \in {"extract_start", "extract_next"}
    /\ LET c == run.search_urls[run.i]
       IN  Advance(Caught(ConfigResult(c), "extractor error"),
                   run.log \o FetchLog(c.key, trace)
                           \o <<RunEvent(c.key, "raise")>>,
                   run.total_new_items, run.total_all_items)
    /\ ResetCrawl
    /\ UNCHANGED <<storeVars, fetch, out, race, registry>>

\* lines 111-146: the crawl has returned; save what it found, add to the
\* totals, read the summary
RunnerFinish ==
    /\ run.pc = "crawl"
    /\ pc = "done"
    /\ LET c == run.search_urls[run.i]
           s == [url |-> c.url, key |-> c.key, name |-> c.name]
           cr0 == [ConfigResult(c) EXCEPT !.crawled_count = Len(ret)]
           log0 == run.log \o FetchLog(c.key, trace)
           r == save_data(fs, clock, c.url, ret, c.key, c.name)
           \* save_data reaches the open of line 82 only when the .get of
           \* line 60 has not raised
           existing_data == load_existing_data(fs, c.url, c.name)
           reaches_open == existing_data.kind \notin {"list", "raise"}
           log1 == IF r.fs # fs THEN Append(log0, RunEvent(c.key, "write"))
                   ELSE log0
           cr1 == [cr0 EXCEPT !.new_count = Len(r.new),
                              !.total_count = Len(r.all),
                              !.new_items = r.new]
           g == get_summary(r.fs, c.url, c.name)
       IN  \E io \in SaveFaults :
             IF ret = <<>>
             THEN /\ io = "ok"
                  /\ Advance(cr0, log0, run.total_new_items, run.total_all_items)
                  /\ UNCHANGED storeVars
             ELSE IF io = "OSError" /\ reaches_open
             THEN /\ Advance(Caught(cr0, io),
                             Append(log0, RunEvent(c.key, "raise")),
                             run.total_new_items, run.total_all_items)
                  /\ UNCHANGED storeVars
             ELSE /\ SaveCall(s, ret)
                  /\ IF r.raised
                     THEN Advance(Caught(cr0, "AttributeError"),
                                  Append(log1, RunEvent(c.key, "raise")),
                                  run.total_new_items, run.total_all_items)
                     ELSE IF g.raised
                     THEN Advance(Caught(cr1, g.error),
                                  Append(log1, RunEvent(c.key, "raise")),
                                  run.total_new_items + Len(r.new),
                                  run.total_all_items + Len(r.all))
                     ELSE Advance(cr1, log1,
                                  run.total_new_items + Len(r.new),
                                  run.total_all_items + Len(r.all))
    /\ ResetCrawl
    /\ UNCHANGED <<fetch, out, race, registry>>

NextRun ==
    \/ PriorSave
    \/ RegisterCrawler
    \/ RunStart
    \/ RunnerCreate
    \/ RunnerCrawlRaise
    \/ RunnerFinish
    \/ FetchStart
    \/ ExtractStart
    \/ BuildNext
    \/ FetchNext
    \/ ExtractNext

SpecRun == Init /\ [][NextRun]_vars

RunStarted == run.pc # "idle"
RunEnded == run.pc = "end"

----------------------------------------------------------------------------
(* Properties of run_crawler *)

\* the events of the run so far, the fetches of the crawl in progress included
RunLog ==
    IF run.pc = "crawl"
    THEN run.log \o FetchLog(run.search_urls[run.i].key, trace)
    ELSE run.log

EventsOf(key) == {i \in DOMAIN RunLog : RunLog[i].key = key}
Count(key, e) == Cardinality({i \in EventsOf(key) : RunLog[i].e = e})

\* the configured entries switched off, and the others, in configured order
SwitchedOff(c) == "enabled" \in DOMAIN c /\ c.enabled = FALSE
DisabledKeys ==
    {run.config.search_urls[i].key :
        i \in {j \in DOMAIN run.config.search_urls :
                 SwitchedOff(run.config.search_urls[j])}}
RECURSIVE KeysOn(_)
KeysOn(cs) ==
    IF cs = <<>> THEN <<>>
    ELSE (IF SwitchedOff(Head(cs)) THEN <<>> ELSE <<Head(cs).key>>)
         \o KeysOn(Tail(cs))

ResultKeys == [i \in DOMAIN run.run_results |-> run.run_results[i].key]

\* C12: whatever subset of the enabled sources fails (at construction, in the
\* crawl, in the save), the finished run has taken up every enabled source
\* exactly once and holds one result per enabled source, in configured order,
\* whose error is set exactly when an exception reached the handler for it.
C12_FailureIsolation ==
    RunEnded =>
        /\ ResultKeys = KeysOn(run.config.search_urls)
        /\ \A i \in DOMAIN run.run_results :
              LET res == run.run_results[i]
              IN  /\ Count(res.key, "begin") = 1
                  /\ (res.error # None) <=> (Count(res.key, "raise") > 0)

\* three enabled sources: the first fails in its crawl, the second at
\* construction, the third goes through and stores new records
C12_Witness ==
    /\ RunEnded
    /\ Len(run.run_results) = 3
    /\ run.run_results[1].error = "extractor error"
    /\ run.run_results[2].error = "unsupported crawler type"
    /\ run.run_results[3].error = None
    /\ run.run_results[3].new_count > 0

\* C13: a source of an unregistered crawler_type has the unsupported-type
\* error in its result, no fetch and no store write is ever made for it, and
\* the run goes on to the sources after it.
C13_UnknownTypeFailsFast ==
    RunStarted =>
        \A i \in DOMAIN run.search_urls :
            run.search_urls[i].crawler_type \notin registry =>
                /\ Count(run.search_urls[i].key, "fetch") = 0
                /\ Count(run.search_urls[i].key, "write") = 0
                /\ i \in DOMAIN run.run_results =>
                      /\ run.run_results[i].error = "unsupported crawler type"
                      /\ run.run_results[i].crawled_count = 0
                /\ RunEnded => Len(run.run_results) = Len(run.search_urls)

\* the unregistered source fails and the source after it is crawled and saved
C13_Witness ==
    /\ RunEnded
    /\ Len(run.run_results) = 3
    /\ run.search_urls[2].crawler_type = "other_site"
    /\ run.run_results[2].error = "unsupported crawler type"
    /\ run.run_results[3].error = None
    /\ Count(run.search_urls[3].key, "fetch") > 0
    /\ Count(run.search_urls[3].key, "write") > 0

\* C19: no event of a run (taking up, fetch, store write) belongs to a source
\* switched off in the configuration; a run with no enabled source ends with
\* no event at all and the store as it found it.
C19_OnlyEnabledReachCore ==
    RunStarted =>
        /\ \A i \in DOMAIN RunLog : RunLog[i].key \notin DisabledKeys
        /\ KeysOn(run.config.search_urls) = <<>> =>
              /\ RunEnded
              /\ RunLog = <<>>
              /\ fs = run.fs0

\* the first entry is switched off and a later one has fetched and written
C19_Witness ==
    /\ RunEnded
    /\ run.config.loaded
    /\ SwitchedOff(run.config.search_urls[1])
    /\ \E i \in DOMAIN RunLog : RunLog[i].e = "write"

RECURSIVE SumOver(_, _)
SumOver(rs, field) ==
    IF rs = <<>> THEN 0 ELSE Head(rs)[field] + SumOver(Tail(rs), field)

\* C20: the totals of a run are the sums of new_count and of total_count over
\* its per-source results, and a source that failed or crawled nothing adds 0
\* to both.
C20_TotalsAreSums ==
    RunStarted =>
        /\ run.total_new_items = SumOver(run.run_results, "new_count")
        /\ run.total_all_items = SumOver(run.run_results, "total_count")
        /\ \A i \in DOMAIN run.run_results :
              LET res == run.run_results[i]
              IN  (res.error # None \/ res.crawled_count = 0) =>
                      res.new_count = 0 /\ res.total_count = 0

----------------------------------------------------------------------------
(* SpecQuery: saves on a named and on an unnamed source, with get_summary
   and export_to_csv calls between them.  `out` holds what the latest
   read-only call returned; a save clears it. *)

QuerySources == {SrcA, SrcH}

\* nothing, one record, one url under two titles, a second url before a
\* repeat of the first
QueryInputs == {<<>>,
                <<Rec("T", 1)>>,
                <<Rec("T", 1), Rec("T2", 1)>>,
                <<Rec("U", 2), Rec("T", 1)>>}

SaveQuery ==
    /\ clock < MaxSaves
    /\ \E s \in QuerySources, L \in QueryInputs : SaveCall(s, L)
    /\ out' = NoCall
    /\ UNCHANGED <<crawlVars, fetch, run, race, registry>>

\* crawler_manager.py:134, run.py show_status
GetSummary ==
    /\ \E s \in QuerySources :
          out' = [op |-> "summary", src |-> s,
                  res |-> get_summary(fs, s.url, s.name)]
    /\ UNCHANGED <<storeVars, crawlVars, fetch, run, race, registry>>

\* run.py export_data: export_to_csv(url, filename) with the url of a source
ExportCsv ==
    /\ \E s \in QuerySources :
          out' = [op |-> "export", src |-> s,
                  res |-> export_to_csv(fs, s.url)]
    /\ UNCHANGED <<storeVars, crawlVars, fetch, run, race, registry>>

NextQuery == SaveQuery \/ GetSummary \/ ExportCsv

SpecQuery == Init /\ [][NextQuery]_vars

----------------------------------------------------------------------------
(* Properties of the read-only store calls and of the persisted record sets *)

RowsOf(items) == <<CsvHeader>> \o [i \in DOMAIN items |-> CsvRow(items[i])]

\* C14: an export of a source writes the header row and then one row per
\* record stored for that source, in stored order, whether the source was
\* saved under a display name or not.
C14_ExportAllStored ==
    out.op = "export" =>
        /\ ~out.res.raised
        /\ out.res.rows = RowsOf(ItemsOf(DataOf(fs, out.src)))

\* C17: in every record set persisted in the store, total_count is the
\* length of the items sequence.
C17_TotalCountIsLength ==
    \A p \in Paths :
        fs[p].kind = "dict" => fs[p].val.total_count = Len(fs[p].val.items)

\* a persisted record set of three records, two of them under one url
C17_Witness ==
    /\ Saved
    /\ DataOf(fs, SrcA).kind = "dict"
    /\ Len(DataOf(fs, SrcA).val.items) = 3
    /\ Cardinality(UrlsOf(DataOf(fs, SrcA).val.items)) = 2

\* C18: get_summary returns total_items = the number of records stored,
\* history_entries = the length of the persisted history log, and
\* latest_new_items = the new_items_count of the entry recorded last, 0 when
\* none was ever recorded.
C18_SummaryCounts ==
    out.op = "summary" =>
        LET hf == _get_history_file(out.src.url, out.src.name)
            recorded == journal[hf]
        IN  /\ ~out.res.raised
            /\ out.res.summary.total_items = Len(ItemsOf(DataOf(fs, out.src)))
            /\ out.res.summary.history_entries = Len(EntriesOf(HistOf(fs, out.src)))
            /\ out.res.summary.latest_new_items =
                  IF recorded = <<>> THEN 0
                  ELSE recorded[Len(recorded)].new_items_count

\* a summary taken after a save that added two records and a later one that
\* added one
C18_Witness ==
    /\ out.op = "summary"
    /\ out.res.summary.total_items = 3
    /\ out.res.summary.history_entries = 2
    /\ out.res.summary.latest_new_items = 1

----------------------------------------------------------------------------
(* SpecFault: saves on two sources of a store whose files may become
   unparsable (a write cut short, a file edited by hand) between saves.
   `last` is the latest event on the store. *)

Damage ==
    /\ \E p \in Paths :
          /\ fs[p].kind \in {"dict", "list"}
          /\ fs' = [fs EXCEPT ![p] = Corrupt]
          /\ last' = [op |-> "damage", path |-> p]
    /\ UNCHANGED <<clock, journal, crawlVars, auxVars>>

SaveFault ==
    /\ clock < MaxSaves
    /\ \E s \in QuerySources, L \in QueryInputs : SaveCall(s, L)
    /\ UNCHANGED <<crawlVars, auxVars>>

NextFault == SaveFault \/ Damage

SpecFault == Init /\ [][NextFault]_vars

\* the files of sources other than s hold after the latest save what they
\* held before it
OthersUntouched(s) ==
    \A o \in QuerySources \ {s} :
        /\ SameContent(DataOf(fs, o), DataOf(last.before_fs, o))
        /\ SameContent(HistOf(fs, o), HistOf(last.before_fs, o))

\* C16: a save on a source whose data file exists and cannot be parsed does
\* not fail, returns every input record as new and the input as all_records,
\* and leaves the files of every other source as they were.
C16_CorruptStoreDegrades ==
    (last.op = "save" /\ last.before_data.kind = "corrupt") =>
        /\ ~last.raised
        /\ last.new = last.input
        /\ last.all = last.input
        /\ ItemsOf(DataOf(fs, last.src)) = last.input
        /\ OthersUntouched(last.src)

\* a save of two records on a source that had records before its data file
\* was damaged, with records stored for the other source
C16_Witness ==
    /\ last.op = "save"
    /\ last.src = SrcA
    /\ last.before_data.kind = "corrupt"
    /\ journal[_get_history_file(SrcA.url, SrcA.name)] # <<>>
    /\ Len(last.input) = 2
    /\ ItemsOf(DataOf(fs, SrcH)) # <<>>

----------------------------------------------------------------------------
(* SpecRace: two save_data invocations on the same source (two runs of the
   program started side by side), each a sequence of six file operations:
   read the data file, open it for writing (which empties it), dump into
   it, then the same three on the history file.  A file operation is one
   step; the steps of the two invocations interleave.  Each invocation dumps
   through the handle of its own open, from offset 0 and without emptying
   the file again: what the other invocation dumped in between stays behind
   the end of a shorter document. *)

RaceSource == SrcA
RaceInputs == {<<Rec("T", 1)>>, <<Rec("U", 2)>>, <<Rec("T", 1), Rec("U", 2)>>}
Procs == {1, 2}

RaceProc(L) ==
    [pc |-> "load", input |-> L, existing_items |-> <<>>, new_items |-> <<>>,
     all_items |-> <<>>, now |-> 0, history |-> <<>>]

RaceStart ==
    /\ race.pc = "idle"
    /\ run.pc = "idle"
    /\ \E L1, L2 \in RaceInputs :
          race' = [pc |-> "run", procs |-> <<RaceProc(L1), RaceProc(L2)>>,
                   order |-> <<>>, fs0 |-> fs, clock0 |-> clock]
    /\ UNCHANGED <<storeVars, crawlVars, fetch, run, out, registry>>

RECURSIVE HistSize(_)
\* the length of a dumped history: one block per entry and one per record of
\* its new_items (the records of RaceInputs serialise to the same length)
HistSize(history) ==
    IF history = <<>> THEN 0
    ELSE 1 + Len(Head(history).new_items) + HistSize(Tail(history))

\* the length of what a file holds: a data document grows with its items, a
\* history with its entries; a file just opened for writing is empty
DocSize(c) ==
    IF c.kind = "dict" THEN Len(ItemsOf(c))
    ELSE IF c.kind = "list" THEN HistSize(EntriesOf(c))
    ELSE 0

\* json.dump and close on a handle opened before: the document replaces the
\* first bytes of what the file holds and a longer content keeps its tail,
\* which leaves two JSON fragments
DumpOver(held, doc) ==
    IF DocSize(held) > DocSize(doc) THEN Corrupt ELSE doc

RaceStep(i, proc) ==
    race' = [race EXCEPT !.procs[i] = proc, !.order = Append(@, i)]

\* lines 59-69: read the data file, compute new_items and all_items
RaceLoad ==
    /\ race.pc = "run"
    /\ \E i \in Procs :
          LET p == race.procs[i]
              existing_data == load_existing_data(fs, RaceSource.url,
                                                  RaceSource.name)
              existing_items == DictGet(existing_data.val, "items", <<>>)
              new_items == NewItems(p.input, existing_items)
          IN  /\ p.pc = "load"
              /\ RaceStep(i, IF existing_data.kind = "list"
                             THEN [p EXCEPT !.pc = "raised"]
                             ELSE [p EXCEPT !.pc = "write",
                                            !.existing_items = existing_items,
                                            !.new_items = new_items,
                                            !.all_items =
                                                MergeItems(existing_items,
                                                           new_items)])
    /\ UNCHANGED <<storeVars, crawlVars, fetch, run, out, registry>>

\* lines 72-82: build updated_data and open the data file for writing, which
\* empties it; until the dump is over the file on disk does not parse
RaceOpen ==
    /\ race.pc = "run"
    /\ \E i \in Procs :
          LET p == race.procs[i]
          IN  /\ p.pc = "write"
              /\ fs' = [fs EXCEPT ![_get_data_file(RaceSource.url,
                                                   RaceSource.name)] = Corrupt]
              /\ RaceStep(i, [p EXCEPT !.now = clock, !.pc = "dump"])
    /\ clock' = clock + 1
    /\ UNCHANGED <<last, journal, crawlVars, fetch, run, out, registry>>

\* line 83: json.dump into the opened file; lines 85-86 and 93-94:
\* _save_history returns at once when there is nothing new
RaceWrite ==
    /\ race.pc = "run"
    /\ \E i \in Procs :
          LET p == race.procs[i]
              updated_data ==
                  [url |-> RaceSource.url, source_key |-> RaceSource.key,
                   source_name |-> RaceSource.name, last_updated |-> p.now,
                   total_count |-> TotalCount(p.all_items),
                   items |-> p.all_items]
          IN  /\ p.pc = "dump"
              /\ fs' = [fs EXCEPT ![_get_data_file(RaceSource.url,
                                                   RaceSource.name)] =
                                      DumpOver(@, JsonDict(updated_data))]
              /\ RaceStep(i, [p EXCEPT !.pc = IF p.new_items = <<>>
                                              THEN "done" ELSE "hist_load"])
    /\ UNCHANGED <<clock, last, journal, crawlVars, fetch, run, out, registry>>

\* lines 105-111: read the history file
RaceHistLoad ==
    /\ race.pc = "run"
    /\ \E i \in Procs :
          LET p == race.procs[i]
              c == HistOf(fs, RaceSource)
          IN  /\ p.pc = "hist_load"
              /\ RaceStep(i, IF c.kind = "dict"
                             THEN [p EXCEPT !.pc = "raised"]
                             ELSE [p EXCEPT !.pc = "hist_write",
                                            !.history = EntriesOf(c)])
    /\ UNCHANGED <<storeVars, crawlVars, fetch, run, out, registry>>

\* lines 113-119: append the entry, cap, open the history file for writing,
\* which empties it
RaceHistOpen ==
    /\ race.pc = "run"
    /\ \E i \in Procs :
          LET p == race.procs[i]
              hf == _get_history_file(RaceSource.url, RaceSource.name)
              entry == HistoryEntry(p.now, RaceSource.key, RaceSource.name,
                                    p.new_items)
          IN  /\ p.pc = "hist_write"
              /\ fs' = [fs EXCEPT ![hf] = Corrupt]
              /\ RaceStep(i, [p EXCEPT !.pc = "hist_dump",
                                       !.history =
                                           CapHistory(Append(p.history, entry))])
    /\ UNCHANGED <<clock, last, journal, crawlVars, fetch, run, out, registry>>

\* line 120: json.dump into the opened history file
RaceHistWrite ==
    /\ race.pc = "run"
    /\ \E i \in Procs :
          LET p == race.procs[i]
              hf == _get_history_file(RaceSource.url, RaceSource.name)
              entry == HistoryEntry(p.now, RaceSource.key, RaceSource.name,
                                    p.new_items)
          IN  /\ p.pc = "hist_dump"
              /\ fs' = [fs EXCEPT ![hf] = DumpOver(@, JsonList(p.history))]
              /\ journal' = [journal EXCEPT ![hf] = Append(@, entry)]
              /\ RaceStep(i, [p EXCEPT !.pc = "done"])
    /\ UNCHANGED <<clock, last, crawlVars, fetch, run, out, registry>>

NextRace ==
    \/ PriorSave
    \/ RaceStart
    \/ RaceLoad
    \/ RaceOpen
    \/ RaceWrite
    \/ RaceHistLoad
    \/ RaceHistOpen
    \/ RaceHistWrite

SpecRace == Init /\ [][NextRace]_vars

RaceDone == race.pc = "run" /\ \A i \in Procs : race.procs[i].pc = "done"

\* all steps of one invocation come before all steps of the other
Sequential ==
    Cardinality({j \in 1..(Len(race.order) - 1) :
                    race.order[j] # race.order[j + 1]}) <= 1

\* both invocations read the data file before either writes it
BothLoadFirst == Len(race.order) >= 2 /\ race.order[1] # race.order[2]

\* a record some invocation returned as new is missing from the stored set
LostUpdate ==
    \E i \in Procs :
        \E r \in Range(race.procs[i].new_items) :
            r \notin Range(ItemsOf(DataOf(fs, RaceSource)))

\* the store two save_data calls, one after the other, leave behind
AfterBoth(first, second) ==
    LET a == save_data(race.fs0, race.clock0, RaceSource.url,
                       race.procs[first].input, RaceSource.key, RaceSource.name)
    IN  save_data(a.fs, race.clock0 + 1, RaceSource.url,
                  race.procs[second].input, RaceSource.key, RaceSource.name).fs

\* C15: when the two saves run one after the other, every record either of
\* them returned as new is in the stored set at the end (and the store is what
\* two save_data calls leave); the state in which a returned-new record is
\* missing is reached when both saves read the stored set before either
\* writes it (witness).
C15_NoLostUpdateWhenSequential ==
    (RaceDone /\ Sequential) =>
        /\ ~LostUpdate
        /\ fs = AfterBoth(race.order[1], 3 - race.order[1])

\* both saves read the stored set before either wrote, the data file parses
\* at the end, and a record one of them returned as new is not in it
C15_Witness ==
    /\ RaceDone
    /\ BothLoadFirst
    /\ DataOf(fs, RaceSource).kind = "dict"
    /\ LostUpdate

----------------------------------------------------------------------------
(* Timing of a crawl and of a fetch *)

IsSleep(ev) == ev.e = "sleep"

\* positions of the successful fetches of the crawl trace
OkFetches == {i \in DOMAIN trace : IsFetch(trace[i]) /\ trace[i].ok}

\* C21: between every two consecutive successful page fetches of a crawl,
\* the first two included, there is a pause of one second.
C21_PauseBetweenFetches ==
    \A i, j \in OkFetches :
        (i < j /\ \A k \in OkFetches : ~(i < k /\ k < j)) =>
            \E k \in (i + 1)..(j - 1) : IsSleep(trace[k]) /\ trace[k].secs = 1

\* the sleeps a fetch_page call has made after `failed` failed attempts of
\* which none was the last allowed one: 1, 2, 4, ...
RECURSIVE Doubling(_)
Doubling(n) ==
    IF n = 0 THEN <<>>
    ELSE LET d == Doubling(n - 1)
         IN  Append(d, IF n = 1 THEN 1 ELSE 2 * d[n - 1])

\* C22: after failed attempt k (from 0) that is not the last allowed one,
\* fetch_page sleeps exactly 2^k seconds before attempt k+1; it does not sleep
\* after the last failed attempt nor after a successful attempt.
C22_ExponentialBackoff ==
    FetchActive =>
        LET made == Len(fetch.gets)
        IN  fetch.sleeps =
              IF fetch.pc = "loop" THEN Doubling(made)
              ELSE IF made = 0 THEN <<>>
              ELSE Doubling(made - 1)

\* three failed attempts of three: sleeps of 1 s and 2 s, none after the last
C22_Witness ==
    /\ fetch.pc = "returned"
    /\ fetch.max_retries = MaxRetries
    /\ Len(fetch.gets) = MaxRetries
    /\ fetch.result = NonePage
    /\ fetch.sleeps = <<1, 2>>

----------------------------------------------------------------------------
(* SpecProgram: what the program does with its crawler: runs of run_crawler
   (SpecRun), and single crawl_search_url calls with any max_pages
   (SpecCrawl). *)

NextProgram == NextRun \/ CrawlStart

SpecProgram == Init /\ [][NextProgram]_vars

\* position of a source in search_urls
PosOf(key) == CHOOSE i \in DOMAIN run.search_urls : run.search_urls[i].key = key

NextRequests == SelectSeq(trace, IsNextRequest)
Extracts == SelectSeq(trace, IsExtract)

\* C23: the events of a run come source by source in configured order, and a
\* source is crawled only when every source before it has its result; in a
\* crawl the k-th next-page request is for page_index k and is computed from
\* the start address, each follow-up fetch goes to the address just built, and
\* the returned list is the concatenation of the lists extracted, in order.
C23_Ordering ==
    /\ RunStarted =>
          /\ \A a, b \in DOMAIN RunLog :
                a < b => PosOf(RunLog[a].key) <= PosOf(RunLog[b].key)
          /\ run.pc = "crawl" => Len(run.run_results) = run.i - 1
    /\ \A k \in DOMAIN NextRequests :
          NextRequests[k].page = k /\ NextRequests[k].base = cargs.url
    /\ \A i \in DOMAIN trace :
          (IsFetch(trace[i]) /\ i > 1) =>
              IsNextRequest(trace[i - 1]) /\ trace[i].url = trace[i - 1].result
    /\ pc = "done" =>
          ret = Concat([k \in DOMAIN Extracts |-> Extracts[k].records])

\* a crawl that asked for pages 1 and 2 and returned a record of the start
\* page a second time, from a later page
C23_Witness ==
    /\ pc = "done"
    /\ Len(NextRequests) >= 2
    /\ Len(Extracts) = 3
    /\ Len(ret) > Cardinality(Range(ret))

----------------------------------------------------------------------------
(* SpecIdentity: saves on two sources of one display name and different
   listing URLs, and on two sources without a display name *)

\* the display name of SrcA on another listing URL
SrcA3 == [url |-> Url2, key |-> "k6", name |-> <<"A">>]

IdentitySources == {SrcA, SrcA3, SrcH, SrcU}

SaveIdentity ==
    /\ clock < MaxSaves
    /\ \E s \in IdentitySources, L \in QueryInputs : SaveCall(s, L)
    /\ UNCHANGED <<crawlVars, auxVars>>

NextIdentity == SaveIdentity

SpecIdentity == Init /\ [][NextIdentity]_vars

\* two sources the claim puts on one store file: one display name, or no
\* display name and one listing URL
SameStore(s, o) ==
    IF s.name # <<>> /\ o.name # <<>> THEN s.name = o.name
    ELSE s.name = <<>> /\ o.name = <<>> /\ s.url = o.url

\* C24: sources of one display name share one record set and one history log
\* whatever their listing URLs (a url stored for one is not new for the
\* other); a save on a source without display name touches no file of a
\* source of another listing URL, nor of a named source.
C24_StoreIdentity ==
    Saved =>
        /\ \A o \in IdentitySources :
              IF SameStore(last.src, o)
              THEN /\ ItemsOf(DataOf(fs, o)) = last.all
                   /\ SameContent(HistOf(fs, o), HistOf(fs, last.src))
                   /\ UrlsOf(last.new)
                        \cap UrlsOf(ItemsOf(DataOf(last.before_fs, o))) = {}
              ELSE /\ SameContent(DataOf(fs, o), DataOf(last.before_fs, o))
                   /\ SameContent(HistOf(fs, o), HistOf(last.before_fs, o))
        /\ (last.prev.op = "save" /\ SameStore(last.src, last.prev.src)) =>
              UrlsOf(last.new) \cap last.prev.input_urls = {}

\* records saved for the source named A on one URL are saved again for the
\* source named A on another URL and none is new, while the unnamed source of
\* that URL has nothing stored
C24_Witness ==
    /\ Saved
    /\ last.src = SrcA3
    /\ last.prev.op = "save"
    /\ last.prev.src = SrcA
    /\ last.prev.same_input
    /\ last.input # <<>>
    /\ last.new = <<>>
    /\ ItemsOf(DataOf(fs, SrcH)) = <<>>

----------------------------------------------------------------------------
(* sichuan_fgw_crawler.py, example_other_site_crawler.py: one page's extract *)

\* the most links one page of the model carries
MaxLinks == 4

ExtractInputs == SeqsUpTo(Records, MaxLinks)

\* extract_search_results on one fetched page
ExtractCall ==
    /\ \E links \in ExtractInputs :
          out' = [op |-> "extract", links |-> links,
                  result |-> extract_search_results([links |-> links])]
    /\ UNCHANGED <<storeVars, crawlVars, fetch, run, race, registry>>

NextExtract == ExtractCall

SpecExtract == Init /\ [][NextExtract]_vars

\* position of the first occurrence of r in s
FirstIndex(s, r) == CHOOSE i \in DOMAIN s : s[i] = r /\ \A j \in 1..(i - 1) : s[j] # r

\* C25: the list extract returns for a page holds no (title, url) pair twice,
\* holds every pair found on the page, those differing only in title or only
\* in url included, and lists them in the order of their first occurrences.
C25_PerPageDedup ==
    out.op = "extract" =>
        LET res == out.result
            links == out.links
        IN  /\ \A i, j \in DOMAIN res : i # j => res[i] # res[j]
            /\ Range(res) = Range(links)
            /\ \A i, j \in DOMAIN res :
                  i < j => FirstIndex(links, res[i]) < FirstIndex(links, res[j])

C25_Witness ==
    /\ out.op = "extract"
    /\ out.links = <<Rec("T", 1), Rec("T2", 1), Rec("T", 1), Rec("U", 2)>>
    /\ out.result = <<Rec("T", 1), Rec("T2", 1), Rec("U", 2)>>

----------------------------------------------------------------------------
(* storage.py: get_all_summaries.  SpecListing: saves on a named source, an
   unnamed one and one whose display name ends in "_history", with listings
   of the data directory between them. *)

\* str.endswith
EndsWith(str, suffix) ==
    /\ Len(str) >= Len(suffix)
    /\ SubSeq(str, Len(str) - Len(suffix) + 1, Len(str)) = suffix

\* os.listdir(self.data_dir): the files that exist
ListDir(f) == {p \in Paths : f[p].kind # "absent"}

\* line 171: the file names the loop opens
IsSummaryFile(filename) ==
    EndsWith(filename, JsonExt) /\ ~EndsWith(filename, HistorySuffix)

\* lines 176-182
FileSummary(data) ==
    [url |-> DictGet(data, "url", "Unknown"),
     source_key |-> DictGet(data, "source_key", None),
     source_name |-> DictGet(data, "source_name", None),
     total_items |-> DictGet(data, "total_count", 0),
     last_updated |-> DictGet(data, "last_updated", Never)]

\* The summary appended for each file name; the returned list holds these in
\* the order os.listdir yields the names.  A file that does not parse, or
\* that holds a JSON array (no get), is logged and skipped.
get_all_summaries(f) ==
    [filename \in {p \in ListDir(f) : IsSummaryFile(p) /\ f[p].kind = "dict"}
        |-> FileSummary(f[filename].val)]

ListingSources == {SrcA, SrcH, SrcAH}

SaveListing ==
    /\ clock < MaxSaves
    /\ \E s \in ListingSources, L \in QueryInputs : SaveCall(s, L)
    /\ out' = NoCall
    /\ UNCHANGED <<crawlVars, fetch, run, race, registry>>

\* run.py show_status
GetAllSummaries ==
    /\ out' = [op |-> "all_summaries", res |-> get_all_summaries(fs)]
    /\ UNCHANGED <<storeVars, crawlVars, fetch, run, race, registry>>

NextListing == SaveListing \/ GetAllSummaries

SpecListing == Init /\ [][NextListing]_vars

\* the data files holding the record set of a source
PersistedDataFiles ==
    {p \in Paths : /\ fs[p].kind = "dict"
                   /\ \E s \in ListingSources : p = _get_data_file(s.url, s.name)}

\* C26: get_all_summaries returns one summary for every persisted data file,
\* the one read from that file, and none for any other file, whatever the
\* display names of the saved sources are.
C26_OneSummaryPerDataFile ==
    out.op = "all_summaries" =>
        /\ DOMAIN out.res = PersistedDataFiles
        /\ \A p \in DOMAIN out.res :
              out.res[p].total_items = Len(fs[p].val.items)

----------------------------------------------------------------------------
(* storage.py: the urls of a stored record set *)

StoredItems(s) == ItemsOf(DataOf(fs, s))

\* C27: after any sequence of saves from an empty store, whatever the input
\* lists repeat, no two records stored for a source have the same url.
C27_StoredUrlsDistinct ==
    \A s \in StoreSources :
        \A i, j \in DOMAIN StoredItems(s) :
            i # j => StoredItems(s)[i].url # StoredItems(s)[j].url

----------------------------------------------------------------------------
(* storage.py: the history log against the stored record set *)

NewItemsOfEntries(history) == Concat([i \in DOMAIN history |-> history[i].new_items])

\* C29: while at most HistoryCap saves have produced new records, whatever
\* the number of saves that produced none, the new_items of the history
\* entries, concatenated in order, are the stored record sequence, and their
\* new_items_count add up to total_count.
C29_HistoryMatchesData ==
    Len(JournalA) <= HistoryCap =>
        /\ NewItemsOfEntries(HistoryA) = StoredItems(SrcA)
        /\ SumOver(HistoryA, "new_items_count") =
              DictGet(DataOf(fs, SrcA).val, "total_count", 0)

C29_Witness ==
    /\ Len(HistoryA) = HistoryCap
    /\ Len(JournalA) = HistoryCap
    /\ clock = HistoryCap + 1
    /\ Saved
    /\ last.new = <<>>
    /\ Len(StoredItems(SrcA)) = HistoryCap

----------------------------------------------------------------------------
(* Termination.  SpecLive is SpecProgram with the scheduling of a running
   interpreter: a crawl or a run that has a next statement executes it.
   Nothing obliges a crawl or a run to be started. *)

\* the configurations of SpecLive: two enabled sources, the first of a type
\* that is not registered at import, with max_pages 1 and 2; and no
\* configuration
LiveConfigs ==
    {[search_urls |-> <<Flagged(CfgX, TRUE), CfgB>>,
      max_pages |-> m, loaded |-> TRUE] : m \in RunMaxPagesValues}
    \cup {NoConfig}

RunStartLive == RunStartWith(LiveConfigs)

CrawlStep == FetchStart \/ ExtractStart \/ BuildNext \/ FetchNext \/ ExtractNext

RunnerStep == RunnerCreate \/ RunnerCrawlRaise \/ RunnerFinish

NextLive ==
    \/ RunStartLive
    \/ RegisterCrawler
    \/ CrawlStart
    \/ RunnerCreate
    \/ RunnerCrawlRaise
    \/ RunnerFinish
    \/ FetchStart
    \/ ExtractStart
    \/ BuildNext
    \/ FetchNext
    \/ ExtractNext

SpecLive == Init /\ [][NextLive]_vars /\ WF_vars(CrawlStep \/ RunnerStep)

CrawlActive == pc \notin {"idle", "done"}

\* C28: whatever max_pages is and whatever the fetches, the extractor and the
\* next-page requests yield, a crawl that has begun comes to its end, and a
\* run that has begun reaches its end with a result for every source of its
\* list, the last one included.
C28_Termination ==
    /\ CrawlActive ~> ~CrawlActive
    /\ RunStarted ~> (RunEnded /\ Len(run.run_results) = Len(run.search_urls))

C28_Witness ==
    /\ RunEnded
    /\ run.config.max_pages = 2
    /\ Len(run.search_urls) = 2
    /\ Len(run.run_results) = 2
    /\ run.run_results[1].error = None
    /\ run.run_results[1].crawled_count >= 2
    /\ run.run_results[2].error = None
    /\ run.run_results[2].crawled_count >= 2

====
